---- MODULE Spec2Model ----
(***************************************************************************)
(* Model of daplauncher.py: the DAP protocol engine (class DAP, its        *)
(* _reader task and the frame decoder read()), the process scope           *)
(* (class Launcher) and the scripted session (debug_session).              *)
(*                                                                         *)
(* One action is one run of a task between two suspension points of the    *)
(* asyncio event loop: the code between two awaits is atomic.              *)
(***************************************************************************)
EXTENDS Integers, Sequences, FiniteSets, TLC

\* ------------------------------------------------------------------ bounds
\* number of caller tasks of the concurrent harness
NumCallers == 2
\* operations each caller task issues
MaxOps == 1
\* frames the adapter writes to its stdout at most
MaxFrames == 2
\* frames that may sit unread in the stdout pipe
MaxBuf == 1
\* frames the adapter writes at most during the scripted session
ScriptMaxFrames == 5
\* frames that may sit unread in the stdout pipe during the scripted session
ScriptMaxBuf == 2

\* frames on the stream given to the stand-alone decoder
MaxCodecFrames == 2

Callers == 1..NumCallers

\* ------------------------------------------------------------- program text
\* the body of debug_session, in order
SessionScript == <<"initialize", "configurationDone", "launch", "terminate", "disconnect">>

\* event names the adapter may announce
EventNames == {"initialized", "output"}

NoResult == [type |-> "none"]

\* a printed line: what was printed, and its seq (request_seq for a Response)
Line(k, n) == [kind |-> k, seq |-> n]

\* the script of caller task c issuing n operations: the named operations of
\* DAP taken round robin, starting at every second one
TaskScript(c, n) ==
    [i \in 1..n |-> SessionScript[((2 * (c - 1) + (i - 1)) % Len(SessionScript)) + 1]]

\* request_seq values an adapter may put into a Response: every seq the
\* callers can allocate, and one more that is never sent
MaxSeq == NumCallers * MaxOps + 1
ScriptMaxSeq == Len(SessionScript) + 1

VARIABLES
    main_pc,      \* debug_session / Launcher: created, spawning, body, wait, left
    main_exc,     \* the exception debug_session ends with ("none" when it has none)
    proc,         \* Launcher.p: none, running, exited
    stdin_closed, \* self.p.stdin.close() was called
    inline,       \* TRUE: the body is debug_session's script, run by the main task
    config_ok,    \* json.dumps accepts self.config (the launch arguments)
    script,       \* per caller: the operations it issues
    pc,           \* per caller: ready, waiting, returned, raised
    idx,          \* per caller: operations completed
    awaiting,     \* per caller: seq of the request whose future it awaits
    results,      \* per caller: what each operation returned
    next_seq,     \* DAP.next_seq
    request_map,  \* DAP.request_map: seq -> future
    event_map,    \* DAP.event_map: event name -> future
    w,            \* frames written to the process's stdin, in order
    r,            \* frames in the stdout pipe, not yet read
    r_eof,        \* the stdout pipe is at end of stream after r
    aseq,         \* the adapter's own seq counter
    reader,       \* the _reader task: none, running, done, failed
    reader_exc,   \* the exception that ended _reader ("none" when none)
    console,      \* the lines the program has printed, in order
    codec         \* read() applied to a byte stream on its own: see CodecSpec

vars == <<main_pc, main_exc, proc, stdin_closed, inline, config_ok, script, pc, idx,
          awaiting, results, next_seq, request_map, event_map, w, r, r_eof, aseq,
          reader, reader_exc, console, codec>>

launcherVars == <<main_pc, main_exc, proc, stdin_closed>>
callerVars == <<pc, idx, awaiting, results>>
dapVars == <<next_seq, request_map, event_map, w>>
pipeVars == <<r, r_eof, aseq>>
readerVars == <<reader, reader_exc>>
\* what no step of a session changes: its inputs, and the stand-alone decoder
inputVars == <<inline, config_ok, script, codec>>

\* read() is not running on a stream of its own
CodecIdle ==
    [pc |-> "idle", sent |-> <<>>, pending |-> <<>>, buf |-> <<>>, eof |-> FALSE,
     size |-> 0, out |-> <<>>, bodies |-> <<>>]

\* ------------------------------------------------------------------ frames
\* A frame on the adapter's stdout: the Content-Length header value ("num": the
\* decimal length of the body, "abc": not a decimal number) and the body.  The
\* body is JSON text of an object with a "type" member, or "garbage" (text
\* that json.loads rejects).
Frame(cl, t, s, rs, ev) ==
    [clen |-> cl, type |-> t, seq |-> s, request_seq |-> rs, event |-> ev]

FramesOf(s, maxseq) ==
    {Frame("num", "response", s, rs, "") : rs \in 1..maxseq}
      \cup {Frame("num", "event", s, 0, ev) : ev \in EventNames}
      \cup {Frame("num", t, s, 0, "") : t \in {"request", "garbage"}}
      \cup {Frame("abc", "response", s, 1, "")}

\* mutant: the type switch has no final else; what is no response is an event
read_without_else(f) ==
    IF f.clen # "num" THEN [kind |-> "raise", exc |-> "ValueError", msg |-> NoResult]
    ELSE IF f.type = "garbage" THEN [kind |-> "raise", exc |-> "JSONDecodeError", msg |-> NoResult]
    ELSE IF f.type = "response"
         THEN [kind |-> "Response", exc |-> "none",
               msg |-> [type |-> "response", seq |-> f.seq, request_seq |-> f.request_seq]]
    ELSE [kind |-> "Event", exc |-> "none",
          msg |-> [type |-> "event", seq |-> f.seq, event |-> f.event]]

\* read(): the header loop, the body read and the type switch.  The result is
\* the message, or the exception the coroutine raises.
read(f) ==
    IF f.clen # "num" THEN [kind |-> "raise", exc |-> "ValueError", msg |-> NoResult]
    ELSE IF f.type = "garbage" THEN [kind |-> "raise", exc |-> "JSONDecodeError", msg |-> NoResult]
    ELSE IF f.type = "response"
         THEN [kind |-> "Response", exc |-> "none",
               msg |-> [type |-> "response", seq |-> f.seq, request_seq |-> f.request_seq]]
    ELSE IF f.type = "event"
         THEN [kind |-> "Event", exc |-> "none",
               msg |-> [type |-> "event", seq |-> f.seq, event |-> f.event]]
    ELSE [kind |-> "raise", exc |-> "RuntimeError: unknown type", msg |-> NoResult]

\* ----------------------------------------------------------------- futures
create_future == [done |-> FALSE, result |-> NoResult]

\* mutant: a second call stores its result over the first
set_result_overwrite(fut, res) ==
    [fut |-> [done |-> TRUE, result |-> res], exc |-> "none"]

\* Future.set_result: a second call raises InvalidStateError
set_result(fut, res) ==
    IF fut.done THEN [fut |-> fut, exc |-> "InvalidStateError"]
    ELSE [fut |-> [done |-> TRUE, result |-> res], exc |-> "none"]

\* mutant: the oldest future not yet done, whatever the Response says
request_map_get_by_arrival(rm, res) ==
    LET open == {s \in DOMAIN rm : ~rm[s].done} IN
    IF open = {} THEN 0 ELSE CHOOSE s \in open : \A t \in open : s <= t

\* self.request_map.get(res.request_seq): the key found, 0 for None
request_map_get(rm, res) ==
    IF res.request_seq \in DOMAIN rm THEN res.request_seq ELSE 0

\* _reader, the Response branch
dispatch_response(rm, res) ==
    LET key == request_map_get(rm, res) IN
    IF key # 0
    THEN LET sr == set_result(rm[key], res) IN
         [request_map |-> [rm EXCEPT ![key] = sr.fut], exc |-> sr.exc]
    ELSE [request_map |-> rm, exc |-> "RuntimeError: request not found"]

\* mutant: an Event without a waiter is an error, as a Response without one is
dispatch_event_strict(em, ev) ==
    IF ev.event \in DOMAIN em
    THEN [event_map |-> em, exc |-> "none"]
    ELSE [event_map |-> em, exc |-> "RuntimeError: event not found"]

\* _reader, the Event branch
dispatch_event(em, ev) ==
    IF ev.event \in DOMAIN em
    THEN LET sr == set_result(em[ev.event], ev) IN
         [event_map |-> [em EXCEPT ![ev.event] = sr.fut], exc |-> sr.exc]
    ELSE [event_map |-> em, exc |-> "none"]

\* ---------------------------------------------------------------- requests
Arguments(cmd) ==
    CASE cmd = "initialize" -> "pathFormat"
      [] cmd = "launch" -> "config"
      [] OTHER -> "empty"

\* mutant: the counter is not advanced
create_request_same_seq(ns, cmd) ==
    [req |-> [seq |-> ns, type |-> "request", command |-> cmd, arguments |-> Arguments(cmd)],
     next_seq |-> ns]

\* DAP._create_request: the request and the counter after it
create_request(ns, cmd) ==
    [req |-> [seq |-> ns, type |-> "request", command |-> cmd, arguments |-> Arguments(cmd)],
     next_seq |-> ns + 1]

\* Request.to_bytes: json.dumps raises TypeError on arguments it cannot serialise;
\* only the launch arguments come from the caller
to_bytes_ok(req) == req.arguments = "config" => config_ok

\* mutant: the future is stored under the counter's new value
register_under_next_seq(rm, seq) ==
    [s \in DOMAIN rm \cup {seq + 1} |-> IF s = seq + 1 THEN create_future ELSE rm[s]]

\* self.request_map[req.seq] = fut
register(rm, seq) ==
    [s \in DOMAIN rm \cup {seq} |-> IF s = seq THEN create_future ELSE rm[s]]

\* mutant: the frame is put in front of what was written before
write_in_front(out, req) == IF stdin_closed THEN out ELSE <<req>> \o out

\* self.w.write: bytes written to a closed pipe are dropped
write(out, req) == IF stdin_closed THEN out ELSE Append(out, req)

\* ------------------------------------------------------------ caller tasks
\* The event loop runs tasks until asyncio.run returns.
LoopAlive == main_pc \in {"body", "wait"}

\* Caller c, with n operations completed, runs on to its next suspension
\* point: it returns when its script is finished, and otherwise allocates the
\* seq, registers the future, writes the frame and awaits the future.
NextRequest(c, n) == create_request(next_seq, script[c][n + 1])

Finishes(c, n) == n = Len(script[c]) \/ ~to_bytes_ok(NextRequest(c, n).req)

ExcOf(c, n) == IF n = Len(script[c]) THEN "none" ELSE "TypeError"

send_request(c, n, rs) ==
    /\ idx' = [idx EXCEPT ![c] = n]
    /\ results' = [results EXCEPT ![c] = rs]
    /\ event_map' = event_map
    /\ IF n = Len(script[c])
       THEN /\ pc' = [pc EXCEPT ![c] = "returned"]
            /\ UNCHANGED <<next_seq, request_map, w, awaiting>>
       ELSE LET cr == NextRequest(c, n) IN
            /\ next_seq' = cr.next_seq
            /\ request_map' = register(request_map, cr.req.seq)
            /\ IF to_bytes_ok(cr.req)
               THEN /\ w' = write(w, cr.req)
                    /\ pc' = [pc EXCEPT ![c] = "waiting"]
                    /\ awaiting' = [awaiting EXCEPT ![c] = cr.req.seq]
               ELSE /\ w' = w
                    /\ pc' = [pc EXCEPT ![c] = "raised"]
                    /\ awaiting' = awaiting

\* mutant: __aexit__ waits for the process without closing its stdin
aexit_without_close(exc) ==
    /\ stdin_closed' = stdin_closed
    /\ main_pc' = "wait"
    /\ main_exc' = exc
    /\ proc' = proc

\* Launcher.__aexit__ up to its await: close stdin, then wait for the process.
\* The exception the body raised is re-raised when __aexit__ returns.
aexit(exc) ==
    /\ stdin_closed' = TRUE
    /\ main_pc' = "wait"
    /\ main_exc' = exc
    /\ proc' = proc

\* mutant: the caller goes on without waiting for its future
await_skipped(fut) == TRUE

\* res = await fut: the caller is resumed once its future is done
await_done(fut) == fut.done

\* what caller c prints on its way to the next suspension point: print(req)
\* in _send_request, and print('<==close') when __aexit__ runs in the same step
CallerPrints(c, n) ==
    LET a == IF n = Len(script[c]) THEN console
             ELSE Append(console, Line("request", NextRequest(c, n).req.seq))
    IN IF inline /\ Finishes(c, n) THEN Append(a, Line("close", 0)) ELSE a

\* In debug_session the caller is the main task itself: leaving the body, by
\* return or by exception, runs __aexit__ in the same step.
ScopeAfter(c, n) ==
    IF inline /\ Finishes(c, n) THEN aexit(ExcOf(c, n)) ELSE UNCHANGED launcherVars

\* a caller task of the concurrent harness starts
CallerStart(c) ==
    /\ main_pc = "body"
    /\ ~inline
    /\ pc[c] = "ready"
    /\ send_request(c, 0, <<>>)
    /\ ScopeAfter(c, 0)
    /\ console' = CallerPrints(c, 0)
    /\ UNCHANGED <<pipeVars, readerVars, inputVars>>

\* res = await fut: the caller resumes with the result of its future
CallerResume(c) ==
    /\ LoopAlive
    /\ pc[c] = "waiting"
    /\ await_done(request_map[awaiting[c]])
    /\ send_request(c, idx[c] + 1,
                    Append(results[c], [req |-> awaiting[c],
                                        res |-> request_map[awaiting[c]].result]))
    /\ ScopeAfter(c, idx[c] + 1)
    /\ console' = CallerPrints(c, idx[c] + 1)
    /\ UNCHANGED <<pipeVars, readerVars, inputVars>>

\* ------------------------------------------------------------ reader task
\* mutant: the loop goes on after an exception
reader_runs_after_error == reader \in {"running", "failed"}

\* _reader is in its "while True" loop: it has neither left it by break nor
\* been ended by an exception
reader_runs == reader = "running"

\* _reader: one frame read and dispatched
ReaderFrame ==
    /\ LoopAlive
    /\ reader_runs
    /\ r # <<>>
    /\ LET rd == read(Head(r)) IN
       /\ r' = Tail(r)
       /\ IF rd.kind = "raise"
          THEN /\ reader' = "failed"
               /\ reader_exc' = rd.exc
               /\ UNCHANGED <<request_map, event_map, console>>
          ELSE IF rd.kind = "Response"
          THEN LET d == dispatch_response(request_map, rd.msg) IN
               /\ console' = Append(console, Line("response", rd.msg.request_seq))
               /\ request_map' = d.request_map
               /\ event_map' = event_map
               /\ reader' = IF d.exc = "none" THEN "running" ELSE "failed"
               /\ reader_exc' = d.exc
          ELSE LET d == dispatch_event(event_map, rd.msg) IN
               /\ console' = Append(console, Line("event", rd.msg.seq))
               /\ event_map' = d.event_map
               /\ request_map' = request_map
               /\ reader' = IF d.exc = "none" THEN "running" ELSE "failed"
               /\ reader_exc' = d.exc
    /\ UNCHANGED <<launcherVars, callerVars, next_seq, w, r_eof, aseq, inputVars>>

\* _reader: readline returns b'' at end of stream, read returns None, break
ReaderEOF ==
    /\ LoopAlive
    /\ reader_runs
    /\ r = <<>>
    /\ r_eof
    /\ reader' = "done"
    /\ console' = Append(console, Line("EOF", 0))
    /\ UNCHANGED <<reader_exc, launcherVars, callerVars, dapVars, pipeVars, inputVars>>

\* ---------------------------------------------------------------- adapter
\* the external process writes a frame to its stdout (a frame written after
\* _reader has ended is never read: it is left out)
AdapterWrite ==
    /\ proc = "running"
    /\ reader \in {"none", "running"}
    /\ ~r_eof
    /\ Len(r) < (IF inline THEN ScriptMaxBuf ELSE MaxBuf)
    /\ aseq <= (IF inline THEN ScriptMaxFrames ELSE MaxFrames)
    /\ \E f \in FramesOf(aseq, IF inline THEN ScriptMaxSeq ELSE MaxSeq) :
          r' = Append(r, f)
    /\ aseq' = aseq + 1
    /\ UNCHANGED <<r_eof, launcherVars, callerVars, dapVars, readerVars, inputVars, console>>

\* the external process exits; its stdout reaches end of stream
AdapterExit ==
    /\ proc = "running"
    /\ proc' = "exited"
    /\ r_eof' = TRUE
    /\ UNCHANGED <<main_pc, main_exc, stdin_closed, r, aseq, callerVars, dapVars,
                   readerVars, inputVars, console>>

\* --------------------------------------------------------------- launcher
\* Launcher.__aenter__: await asyncio.create_subprocess_exec(...)
LauncherSpawn ==
    /\ main_pc = "created"
    /\ main_pc' = "spawning"
    /\ proc' = "running"
    /\ UNCHANGED <<main_exc, stdin_closed, callerVars, dapVars, pipeVars, readerVars,
                   inputVars, console>>

\* get_adapter or create_subprocess_exec raises: no process, no scope
LauncherSpawnFails ==
    /\ main_pc = "created"
    /\ main_pc' = "left"
    /\ main_exc' = "OSError"
    /\ UNCHANGED <<proc, stdin_closed, callerVars, dapVars, pipeVars, readerVars,
                   inputVars, console>>

\* __aenter__ returns and the body of debug_session runs up to its first await
ScriptBodyStart ==
    /\ main_pc = "spawning"
    /\ inline
    /\ reader' = "running"
    /\ reader_exc' = reader_exc
    /\ send_request(1, 0, <<>>)
    /\ console' = CallerPrints(1, 0)
    /\ IF Finishes(1, 0)
       THEN aexit(ExcOf(1, 0))
       ELSE main_pc' = "body" /\ UNCHANGED <<main_exc, proc, stdin_closed>>
    /\ UNCHANGED <<pipeVars, inputVars>>

\* __aenter__ returns and the body starts the caller tasks and awaits them
TasksBodyStart ==
    /\ main_pc = "spawning"
    /\ ~inline
    /\ main_pc' = "body"
    /\ reader' = "running"
    /\ pc' = [c \in Callers |-> "ready"]
    /\ UNCHANGED <<reader_exc, main_exc, proc, stdin_closed, idx, awaiting, results,
                   dapVars, pipeVars, inputVars, console>>

\* the awaited caller tasks are all done, or one has raised: the body is left
\* and __aexit__ runs up to its await
TasksBodyEnd ==
    /\ main_pc = "body"
    /\ ~inline
    /\ \/ \A c \in Callers : pc[c] = "returned"
       \/ \E c \in Callers : pc[c] = "raised"
    /\ aexit(IF \E c \in Callers : pc[c] = "raised" THEN "TypeError" ELSE "none")
    /\ console' = Append(console, Line("close", 0))
    /\ UNCHANGED <<callerVars, dapVars, pipeVars, readerVars, inputVars>>

\* ret = await self.p.wait() returns; __aexit__ and debug_session end
WaitReturn ==
    /\ main_pc = "wait"
    /\ proc = "exited"
    /\ main_pc' = "left"
    /\ console' = Append(console, Line("terminated", 0))
    /\ UNCHANGED <<main_exc, proc, stdin_closed, callerVars, dapVars, pipeVars,
                   readerVars, inputVars>>

\* --------------------------------------------------------- specifications
InitCommon ==
    /\ main_pc = "created"
    /\ main_exc = "none"
    /\ proc = "none"
    /\ stdin_closed = FALSE
    /\ config_ok \in BOOLEAN
    /\ idx = [c \in Callers |-> 0]
    /\ awaiting = [c \in Callers |-> 0]
    /\ results = [c \in Callers |-> <<>>]
    /\ next_seq = 1
    /\ request_map = <<>>
    /\ event_map = <<>>
    /\ w = <<>>
    /\ r = <<>>
    /\ r_eof = FALSE
    /\ aseq = 1
    /\ reader = "none"
    /\ reader_exc = "none"
    /\ console = <<>>

\* caller tasks using one DAP concurrently
Init ==
    /\ InitCommon
    /\ codec = CodecIdle
    /\ inline = FALSE
    /\ pc = [c \in Callers |-> "none"]
    /\ script = [c \in Callers |-> TaskScript(c, MaxOps)]

\* debug_session
ScriptInit ==
    /\ InitCommon
    /\ codec = CodecIdle
    /\ inline = TRUE
    /\ pc = [c \in Callers |-> "none"]
    /\ script = [c \in Callers |-> IF c = 1 THEN SessionScript ELSE <<>>]

Next ==
    \/ LauncherSpawn
    \/ LauncherSpawnFails
    \/ TasksBodyStart
    \/ \E c \in Callers : CallerStart(c)
    \/ \E c \in Callers : CallerResume(c)
    \/ TasksBodyEnd
    \/ WaitReturn
    \/ ReaderFrame
    \/ ReaderEOF
    \/ AdapterWrite
    \/ AdapterExit

ScriptNext ==
    \/ LauncherSpawn
    \/ LauncherSpawnFails
    \/ ScriptBodyStart
    \/ CallerResume(1)
    \/ WaitReturn
    \/ ReaderFrame
    \/ ReaderEOF
    \/ AdapterWrite
    \/ AdapterExit

Spec == Init /\ [][Next]_vars

ScriptSpec == ScriptInit /\ [][ScriptNext]_vars

\* The event loop runs every task that is ready; the adapter exits once its
\* stdin is closed.
ScriptFairness ==
    /\ WF_vars(LauncherSpawn)
    /\ WF_vars(ScriptBodyStart)
    /\ WF_vars(CallerResume(1))
    /\ WF_vars(ReaderFrame)
    /\ WF_vars(ReaderEOF)
    /\ WF_vars(WaitReturn)
    /\ WF_vars(stdin_closed /\ AdapterExit)

LiveScriptSpec == ScriptInit /\ [][ScriptNext]_vars /\ ScriptFairness

\* ------------------------------------------------------------------ claims
\* callers suspended in "await fut" on a future that is not done
StuckCallers == {c \in Callers : pc[c] = "waiting" /\ ~request_map[awaiting[c]].done}

\* the print(req) lines, in order
RequestLines == SelectSeq(console, LAMBDA l : l.kind = "request")

\* the session state of spec section 4.5, read off the Launcher
SessionState ==
    CASE main_pc \in {"created", "spawning"} -> "Created"
      [] main_pc = "body" -> "Running"
      [] main_pc = "wait" -> "Closing"
      [] OTHER -> "Exited"

\* C1: when the Reader Loop has ended at end-of-stream, two send_request calls
\* that were pending are both finished (failed with SessionClosed): they are
\* not left suspended on their futures.
C1_EofReleasesBothPending ==
    reader = "done" => Cardinality(StuckCallers) < 2

\* C2: whatever the order of the responses, what a send_request call returns
\* is a Response whose request_seq is the seq of that call's own request.
C2_CorrelationByRequestSeq ==
    \A c \in Callers : \A i \in 1..Len(results[c]) :
        /\ results[c][i].res.type = "response"
        /\ results[c][i].res.request_seq = results[c][i].req

\* C2 witness: two callers have their results, and the responses arrived in
\* the reverse order of the requests.
C2_Witness ==
    \E c, d \in Callers :
        /\ Len(results[c]) > 0 /\ Len(results[d]) > 0
        /\ results[c][1].req < results[d][1].req
        /\ results[c][1].res.seq > results[d][1].res.seq

\* C3: the i-th request created in a session has seq i: the first has seq 1,
\* each next one is one greater, none is used twice.
C3_SeqIsOneToN ==
    /\ \A i \in 1..Len(RequestLines) : RequestLines[i].seq = i
    /\ next_seq = Len(RequestLines) + 1

\* C3 witness: every caller has created its requests.
C3_Witness == Len(RequestLines) = NumCallers * MaxOps

\* C4: when the Reader Loop has met a Response whose request_seq has no
\* future, no send_request call is left suspended.
C4_UnknownResponseReleasesPending ==
    reader_exc = "RuntimeError: request not found" => StuckCallers = {}

\* C5: the body of debug_session is left, by return or by exception, only
\* through __aexit__: stdin is closed before the wait for the process begins,
\* and the scope is left only with stdin closed and the process exited.
C5_ScopedRelease ==
    /\ pc[1] \in {"returned", "raised"} => stdin_closed /\ main_pc \in {"wait", "left"}
    /\ main_pc = "wait" => stdin_closed
    /\ (main_pc = "left" /\ proc # "none") => stdin_closed /\ proc = "exited"
    /\ \A i \in 1..Len(console) : console[i].kind = "terminated" =>
            \E j \in 1..(i - 1) : console[j].kind = "close"

\* C5 witness: launch raised partway through the script, and the scope was
\* left after the process exited.
C5_Witness ==
    /\ main_pc = "left"
    /\ pc[1] = "raised"
    /\ main_exc = "TypeError"
    /\ Len(w) = 2

\* C6: a session whose Reader Loop has ended goes on to Closing and reaches
\* Exited.
C6_ReaderEndLeadsToExited ==
    (reader \in {"done", "failed"}) ~> (SessionState = "Exited")

\* C7: once the Response of a request has been dispatched, the request's
\* entry is no longer in the pending request table.
C7_EntryRemovedOnDispatch ==
    \A s \in DOMAIN request_map : ~request_map[s].done

\* C8: the Reader Loop's step on an Event that has no waiter leaves the
\* pending request table, the callers and the running state of the loop as
\* they were.
C8_UnawaitedEventIsNoOp ==
    [][(/\ LoopAlive
        /\ reader = "running"
        /\ r # <<>>
        /\ read(Head(r)).kind = "Event"
        /\ Head(r).event \notin DOMAIN event_map
        /\ r' = Tail(r))
       => (/\ request_map' = request_map
           /\ event_map' = event_map
           /\ pc' = pc
           /\ reader' = "running")]_vars

\* C8 witness: a request was pending when an Event without a waiter was
\* dispatched, and the request's own Response reached its caller afterwards.
C8_Witness ==
    \E i, j, k \in 1..Len(console) :
        /\ i < j /\ j < k
        /\ console[i].kind = "request"
        /\ console[j].kind = "event"
        /\ console[k].kind = "response" /\ console[k].seq = console[i].seq
        /\ \E c \in Callers : Len(results[c]) > 0 /\ results[c][1].req = console[i].seq

\* C9: a frame whose Content-Length is not a decimal number ends the Reader
\* Loop with a DecodeError and leaves no send_request call suspended.
C9_BadLengthIsDecodeError ==
    [][(/\ LoopAlive
        /\ reader = "running"
        /\ r # <<>>
        /\ Head(r).clen # "num"
        /\ r' = Tail(r))
       => (/\ reader' = "failed"
           /\ reader_exc' = "DecodeError"
           /\ StuckCallers' = {})]_vars

\* C10: in debug_session the frames on the wire are initialize,
\* configurationDone, launch, terminate, disconnect with seq 1 to 5, in that
\* order; request k+1 is written after the Response to request k was returned
\* to the caller, and at most one written request has no Response.
C10_ScriptSerialized ==
    /\ Len(w) <= Len(SessionScript)
    /\ \A i \in 1..Len(w) : w[i].seq = i /\ w[i].command = SessionScript[i]
    /\ \A i \in 2..Len(w) :
          /\ Len(results[1]) >= i - 1
          /\ results[1][i - 1].req = i - 1
          /\ results[1][i - 1].res.type = "response"
          /\ results[1][i - 1].res.request_seq = i - 1
    /\ Cardinality({i \in 1..Len(w) : ~request_map[w[i].seq].done}) <= 1

\* C10 witness: the five requests are on the wire and the script has returned.
C10_Witness == Len(w) = 5 /\ pc[1] = "returned"

\* the Reader Loop is about to dispatch the Response at the head of the pipe
ReaderAtResponse ==
    /\ LoopAlive
    /\ reader = "running"
    /\ r # <<>>
    /\ read(Head(r)).kind = "Response"

\* C12: a second Response with a request_seq whose Response was dispatched
\* before finds no pending entry: it is reported as 'request not found', ends
\* the Reader Loop and does not touch the future of that request.
C12_DuplicateFindsNoEntry ==
    [][(/\ ReaderAtResponse
        /\ \E i \in 1..Len(console) : console[i] = Line("response", Head(r).request_seq)
        /\ r' = Tail(r))
       => (/\ request_map_get(request_map, read(Head(r)).msg) = 0
           /\ reader' = "failed"
           /\ reader_exc' = "RuntimeError: request not found"
           /\ request_map' = request_map)]_vars

\* C13: a future of request_map is completed at most once: once it is done
\* its stored result never changes, and what a caller was returned never
\* changes either, whatever frames arrive later.
C13_SlotIsSingleAssignment ==
    [][/\ \A s \in DOMAIN request_map :
            /\ s \in DOMAIN request_map'
            /\ request_map[s].done => request_map'[s] = request_map[s]
       /\ \A c \in Callers :
            /\ Len(results'[c]) >= Len(results[c])
            /\ SubSeq(results'[c], 1, Len(results[c])) = results[c]]_vars

\* C13 witness: a second Response for the same request has arrived, and the
\* future holds the first one.
C13_Witness ==
    \E i, j \in 1..Len(console) :
        /\ i < j
        /\ console[i].kind = "response"
        /\ console[j] = console[i]
        /\ console[i].seq \in DOMAIN request_map
        /\ request_map[console[i].seq].done
        /\ request_map[console[i].seq].result.seq < aseq - 1

\* seq of the Response printed last
LastResponseSeq ==
    LET at == {i \in 1..Len(console) : console[i].kind = "response"} IN
    console[CHOOSE i \in at : \A j \in at : j <= i].seq

WrittenSeqs == {w[i].seq : i \in 1..Len(w)}

\* C14: every request on the wire has its future in request_map, not done
\* until a Response with its request_seq was read; the first Response that
\* carries the seq of a written request completes that future, and no
\* Response for a written request is reported as 'request not found'.
C14_WrittenRequestIsRegistered ==
    /\ [](\A s \in WrittenSeqs :
            /\ s \in DOMAIN request_map
            /\ request_map[s].done =>
                  \E j \in 1..Len(console) : console[j] = Line("response", s))
    /\ [][(/\ ReaderAtResponse
           /\ Head(r).request_seq \in WrittenSeqs
           /\ r' = Tail(r))
          => (/\ reader_exc' # "RuntimeError: request not found"
              /\ (\A j \in 1..Len(console) : console[j] # Line("response", Head(r).request_seq))
                    => /\ reader' = "running"
                       /\ request_map'[Head(r).request_seq].done
                       /\ request_map'[Head(r).request_seq].result = read(Head(r)).msg)]_vars

\* C14 witness: two callers have written their requests, in either order, and
\* the first Response of each has found its future.
C14_Witness ==
    /\ Len(w) = 2
    /\ \A s \in WrittenSeqs : request_map[s].done

\* no future is completed by the step
NoNewCompletion ==
    \A s \in DOMAIN request_map' :
        request_map'[s].done => s \in DOMAIN request_map /\ request_map[s].done

\* the step prints no Response and no Event
NoNewDispatchLine ==
    \A i \in (Len(console) + 1)..Len(console') :
        console'[i].kind \notin {"response", "event"}

\* C17: the Reader Loop's step on a frame whose type is neither 'response'
\* nor 'event' (a request) completes no future, prints no message and ends the
\* loop; afterwards no frame is taken from the pipe and no future is completed.
C17_UnknownTypeIsFatal ==
    /\ [][(/\ LoopAlive
           /\ reader = "running"
           /\ r # <<>>
           /\ Head(r).clen = "num"
           /\ Head(r).type \notin {"response", "event", "garbage"}
           /\ r' = Tail(r))
          => (/\ reader' = "failed"
              /\ reader_exc' = "RuntimeError: unknown type"
              /\ request_map' = request_map
              /\ event_map' = event_map
              /\ console' = console)]_vars
    /\ [][reader_exc = "RuntimeError: unknown type"
          => (/\ reader' = "failed"
              /\ r' = r
              /\ NoNewCompletion
              /\ NoNewDispatchLine)]_vars

\* C17 witness: the loop was ended by a request frame while the Response of
\* the pending request was the next frame in the pipe; it stays there.
C17_Witness ==
    /\ reader_exc = "RuntimeError: unknown type"
    /\ r # <<>>
    /\ Head(r).type = "response"
    /\ Head(r).clen = "num"
    /\ Head(r).request_seq \in DOMAIN request_map
    /\ ~request_map[Head(r).request_seq].done
    /\ pc[1] = "waiting"
    /\ awaiting[1] = Head(r).request_seq

\* C19: the Reader Loop ends at the first end of stream or exception; once it
\* has ended it stays ended, no future is completed any more, no message is
\* dispatched, and a caller suspended on a future that is not done stays
\* suspended, also one that issues its request afterwards.
C19_EndedReaderCompletesNothing ==
    /\ [][(/\ LoopAlive
           /\ reader = "running"
           /\ r # <<>>
           /\ r' = Tail(r)
           /\ read(Head(r)).kind = "raise")
          => reader' = "failed"]_vars
    /\ [][(/\ LoopAlive
           /\ reader = "running"
           /\ r = <<>>
           /\ r_eof
           /\ console' = Append(console, Line("EOF", 0)))
          => reader' = "done"]_vars
    /\ [][(reader \in {"done", "failed"})
          => (/\ reader' = reader
              /\ reader_exc' = reader_exc
              /\ NoNewCompletion
              /\ NoNewDispatchLine
              /\ \A c \in StuckCallers : c \in StuckCallers')]_vars

\* C19 witness: after the loop ended at end of stream the caller was resumed
\* with an earlier result, issued its next request and is suspended on it.
C19_Witness ==
    /\ reader = "done"
    /\ pc[1] = "waiting"
    /\ ~request_map[awaiting[1]].done
    /\ \E i, j \in 1..Len(console) :
          /\ i < j
          /\ console[i].kind = "EOF"
          /\ console[j] = Line("request", awaiting[1])

\* C18 as claimed: the k-th request frame on the output stream carries seq k.
C18_KthFrameHasSeqK ==
    \A i \in 1..Len(w) : w[i].seq = i

\* C18 as amended: every seq allocated is registered in the same step, the
\* frames on the output stream are in strictly increasing seq order, the k-th
\* frame carries a seq of at least k, and exactly k when json.dumps accepts the
\* launch configuration (a request that to_bytes rejects takes its seq and
\* writes nothing).
C18_FramesInIncreasingSeqOrder ==
    /\ DOMAIN request_map = 1..(next_seq - 1)
    /\ \A i \in 1..Len(w) : w[i].seq >= i /\ w[i].seq < next_seq
    /\ \A i, j \in 1..Len(w) : i < j => w[i].seq < w[j].seq
    /\ config_ok => \A i \in 1..Len(w) : w[i].seq = i

\* C18 witness: launch took seq 1 and raised in to_bytes; the first frame on
\* the output stream carries seq 2.
C18_Witness ==
    /\ ~config_ok
    /\ Len(w) = 1
    /\ w[1].seq = 2
    /\ \E c \in Callers : pc[c] = "raised"

\* ------------------------------------------------- waiting for an event
\* fut = loop.create_future(); self.event_map['initialized'] = fut: the
\* registration that DAP.initialize keeps commented out, done by a task that
\* wants to wait for the event
RegisterEventWaiter(name) ==
    /\ main_pc = "body"
    /\ name \notin DOMAIN event_map
    /\ event_map' = [n \in DOMAIN event_map \cup {name} |->
                        IF n = name THEN create_future ELSE event_map[n]]
    /\ UNCHANGED <<launcherVars, callerVars, next_seq, request_map, w, pipeVars,
                   readerVars, inputVars, console>>

EventNext ==
    \/ Next
    \/ RegisterEventWaiter("initialized")

EventSpec == Init /\ [][EventNext]_vars

\* the Reader Loop is about to dispatch the Event at the head of the pipe
ReaderAtEvent ==
    /\ LoopAlive
    /\ reader = "running"
    /\ r # <<>>
    /\ read(Head(r)).kind = "Event"

\* C15: the first Event with a name that has a waiter is delivered to the
\* waiter and the waiter's entry is removed from event_map; an Event with the
\* same name that comes later does not end the Reader Loop.
C15_EventWaiterRemovedOnDelivery ==
    [][(ReaderAtEvent /\ r' = Tail(r))
       => (/\ reader' = "running"
           /\ (Head(r).event \in DOMAIN event_map /\ ~event_map[Head(r).event].done)
                => Head(r).event \notin DOMAIN event_map')]_vars

\* ------------------------------------------------------------ frame codec
\* The byte stream at the grain of lexemes: one element stands for one lexeme
\* of the wire format (the header name, a digit, a white space character, a
\* JSON punctuation mark, literal or string), and lengths count elements.
Tok(t, v) == [t |-> t, v |-> v]
SP == Tok("w", "SP")
CR == Tok("w", "CR")
LF == Tok("w", "LF")
ContentLength == Tok("h", "Content-Length:")
Punct(c) == Tok("p", c)

\* Python values: None, bool, int, str and dict (keys in insertion order)
PyNone == [k |-> "none", n |-> 0, s |-> "", items |-> <<>>]
PyBool(b) == [k |-> "bool", n |-> IF b THEN 1 ELSE 0, s |-> "", items |-> <<>>]
PyInt(i) == [k |-> "int", n |-> i, s |-> "", items |-> <<>>]
PyStr(x) == [k |-> "str", n |-> 0, s |-> x, items |-> <<>>]
PyDict(kv) == [k |-> "dict", n |-> 0, s |-> "", items |-> kv]

Keys(d) == {d.items[i][1] : i \in 1..Len(d.items)}
Lookup(d, key) == d.items[CHOOSE i \in 1..Len(d.items) : d.items[i][1] = key][2]

DigitChars == <<"0", "1", "2", "3", "4", "5", "6", "7", "8", "9">>

\* str(n) for n >= 0
RECURSIVE Digits(_)
Digits(n) ==
    IF n < 10 THEN <<Tok("d", DigitChars[n + 1])>>
    ELSE Digits(n \div 10) \o <<Tok("d", DigitChars[(n % 10) + 1])>>

DigitValue(tok) == (CHOOSE i \in 1..10 : DigitChars[i] = tok.v) - 1

\* json.dumps with the default separators ', ' and ': '
RECURSIVE json_dumps(_)
RECURSIVE dump_items(_, _)
dump_items(kv, i) ==
    IF i > Len(kv) THEN <<>>
    ELSE (IF i > 1 THEN <<Punct(","), SP>> ELSE <<>>)
           \o <<Tok("s", kv[i][1]), Punct(":"), SP>>
           \o json_dumps(kv[i][2])
           \o dump_items(kv, i + 1)

json_dumps(v) ==
    CASE v.k = "none" -> <<Tok("l", "null")>>
      [] v.k = "bool" -> <<Tok("l", IF v.n = 1 THEN "true" ELSE "false")>>
      [] v.k = "int" -> Digits(v.n)
      [] v.k = "str" -> <<Tok("s", v.s)>>
      [] OTHER -> <<Punct("{")>> \o dump_items(v.items, 1) \o <<Punct("}")>>

\* json.loads: a recursive descent over the lexemes
ParseFail == [ok |-> FALSE, v |-> PyNone, next |-> 0]

RECURSIVE SkipWs(_, _)
SkipWs(ts, i) ==
    IF i <= Len(ts) /\ ts[i].t = "w" THEN SkipWs(ts, i + 1) ELSE i

RECURSIVE ParseDigits(_, _, _)
ParseDigits(ts, i, acc) ==
    IF i <= Len(ts) /\ ts[i].t = "d"
    THEN ParseDigits(ts, i + 1, 10 * acc + DigitValue(ts[i]))
    ELSE [ok |-> TRUE, v |-> PyInt(acc), next |-> i]

RECURSIVE ParseValue(_, _)
RECURSIVE ParseMembers(_, _, _)
ParseMembers(ts, i, acc) ==
    LET a == SkipWs(ts, i) IN
    IF a > Len(ts) \/ ts[a].t # "s" THEN ParseFail
    ELSE LET b == SkipWs(ts, a + 1) IN
    IF b > Len(ts) \/ ts[b] # Punct(":") THEN ParseFail
    ELSE LET pv == ParseValue(ts, b + 1) IN
    IF ~pv.ok THEN ParseFail
    ELSE LET c == SkipWs(ts, pv.next)
             kv == Append(acc, <<ts[a].v, pv.v>>) IN
    IF c > Len(ts) THEN ParseFail
    ELSE IF ts[c] = Punct(",") THEN ParseMembers(ts, c + 1, kv)
    ELSE IF ts[c] = Punct("}") THEN [ok |-> TRUE, v |-> PyDict(kv), next |-> c + 1]
    ELSE ParseFail

ParseValue(ts, i) ==
    LET a == SkipWs(ts, i) IN
    IF a > Len(ts) THEN ParseFail
    ELSE CASE ts[a].t = "l" ->
                [ok |-> TRUE, next |-> a + 1,
                 v |-> IF ts[a].v = "null" THEN PyNone ELSE PyBool(ts[a].v = "true")]
           [] ts[a].t = "d" -> ParseDigits(ts, a, 0)
           [] ts[a].t = "s" -> [ok |-> TRUE, v |-> PyStr(ts[a].v), next |-> a + 1]
           [] ts[a] = Punct("{") ->
                LET b == SkipWs(ts, a + 1) IN
                IF b <= Len(ts) /\ ts[b] = Punct("}")
                THEN [ok |-> TRUE, v |-> PyDict(<<>>), next |-> b + 1]
                ELSE ParseMembers(ts, a + 1, <<>>)
           [] OTHER -> ParseFail

json_loads(ts) ==
    LET p == ParseValue(ts, 1) IN
    IF p.ok /\ SkipWs(ts, p.next) > Len(ts) THEN p ELSE ParseFail

\* the python value of a Request's arguments: line 187, {} (lines 192-204) and
\* self.config, of which the launch configuration's type and request stand
\* for its five string members
ArgumentsValue(a) ==
    CASE a = "pathFormat" -> PyDict(<< <<"pathFormat", PyStr("path")>> >>)
      [] a = "config" -> PyDict(<< <<"type", PyStr("python")>>,
                                   <<"request", PyStr("launch")>> >>)
      [] OTHER -> PyDict(<<>>)

\* Request._asdict(): the fields in declaration order
asdict(req) ==
    PyDict(<< <<"seq", PyInt(req.seq)>>, <<"type", PyStr(req.type)>>,
              <<"command", PyStr(req.command)>>,
              <<"arguments", ArgumentsValue(req.arguments)>> >>)

\* the frame around a body: the header line with the body's length, the
\* blank line, the body
WireFrame(body) ==
    <<ContentLength, SP>> \o Digits(Len(body)) \o <<CR, LF>> \o <<CR, LF>> \o body

\* Request.to_bytes
to_bytes(req) == WireFrame(json_dumps(asdict(req)))

\* StreamReader.readline: the buffer up to and including the first LF, or all
\* of it when it holds none (the stream is then at its end)
RECURSIVE FirstLF(_, _)
FirstLF(buf, i) ==
    IF i > Len(buf) THEN 0 ELSE IF buf[i] = LF THEN i ELSE FirstLF(buf, i + 1)

readline(buf) ==
    LET n == FirstLF(buf, 1) IN IF n = 0 THEN buf ELSE SubSeq(buf, 1, n)

\* bytes.strip
RECURSIVE strip(_)
strip(l) ==
    IF l = <<>> THEN l
    ELSE IF l[1].t = "w" THEN strip(Tail(l))
    ELSE IF l[Len(l)].t = "w" THEN strip(SubSeq(l, 1, Len(l) - 1))
    ELSE l

\* int(l[15:].strip()): ValueError unless the text is a decimal number
HeaderSize(l) ==
    LET x == strip(Tail(l)) IN
    IF x # <<>> /\ \A i \in 1..Len(x) : x[i].t = "d"
    THEN [ok |-> TRUE, n |-> ParseDigits(x, 1, 0).v.n]
    ELSE [ok |-> FALSE, n |-> 0]

\* the fields Response(**obj) and Event(**obj) accept, and those they require
ResponseFields == {"seq", "type", "request_seq", "success", "command", "message", "body"}
ResponseRequired == {"seq", "type", "request_seq", "success", "command"}
EventFields == {"seq", "type", "event", "body"}
EventRequired == {"seq", "type", "event"}

Returned(cls, obj) == [kind |-> "msg", exc |-> "none", cls |-> cls, obj |-> obj]
Raised(exc, obj) == [kind |-> "raise", exc |-> exc, cls |-> "", obj |-> obj]
ReturnedNone == [kind |-> "EOF", exc |-> "none", cls |-> "", obj |-> PyNone]

FromKeywords(cls, fields, required, obj) ==
    IF Keys(obj) \subseteq fields /\ required \subseteq Keys(obj)
    THEN Returned(cls, obj)
    ELSE Raised("TypeError", obj)

\* mutant: every object with a type is returned as a message
construct_any(obj) ==
    IF obj.k # "dict" THEN Raised("TypeError", obj)
    ELSE IF "type" \notin Keys(obj) THEN Raised("KeyError", obj)
    ELSE Returned("Event", obj)

\* t = obj['type'] and the switch on it
construct(obj) ==
    IF obj.k # "dict" THEN Raised("TypeError", obj)
    ELSE IF "type" \notin Keys(obj) THEN Raised("KeyError", obj)
    ELSE IF Lookup(obj, "type") = PyStr("response")
         THEN FromKeywords("Response", ResponseFields, ResponseRequired, obj)
    ELSE IF Lookup(obj, "type") = PyStr("event")
         THEN FromKeywords("Event", EventFields, EventRequired, obj)
    ELSE Raised("RuntimeError: unknown type", obj)

\* r.read(size): returns as soon as the buffer holds anything (or the stream
\* is at its end), with at most size bytes
stream_read(buf, size, eof) ==
    [ready |-> size = 0 \/ buf # <<>> \/ eof,
     n |-> IF Len(buf) < size THEN Len(buf) ELSE size]

\* the seq the messages on a stream carry
CodecSeqs == {1}

\* messages on a stream: the Requests this program encodes, and the Responses
\* and Events an adapter sends, in the same framing
CodecRequests ==
    {create_request(s, c).req :
        s \in CodecSeqs,
        c \in {"initialize", "configurationDone"} \cup (IF config_ok THEN {"launch"} ELSE {})}

CodecResponses ==
    {PyDict(<< <<"seq", PyInt(s)>>, <<"type", PyStr("response")>>,
               <<"request_seq", PyInt(s)>>, <<"success", PyBool(TRUE)>>,
               <<"command", PyStr("initialize")>>,
               <<"body", PyDict(<< <<"supportsConfigurationDoneRequest", PyBool(TRUE)>> >>)>> >>)
        : s \in CodecSeqs}

CodecEvents ==
    {PyDict(<< <<"seq", PyInt(s)>>, <<"type", PyStr("event")>>,
               <<"event", PyStr("initialized")>> >>) : s \in CodecSeqs}

CodecMessages == {asdict(q) : q \in CodecRequests} \cup CodecResponses \cup CodecEvents

RECURSIVE Stream(_)
Stream(ms) == IF ms = <<>> THEN <<>> ELSE WireFrame(json_dumps(Head(ms))) \o Stream(Tail(ms))

sessionVars == <<main_pc, main_exc, proc, stdin_closed, inline, config_ok, script, pc,
                 idx, awaiting, results, next_seq, request_map, event_map, w, r, r_eof,
                 aseq, reader, reader_exc, console>>

\* the stream delivers more: one lexeme, or all that is left
CodecFeed ==
    /\ codec.pc \in {"header", "body"}
    /\ codec.pending # <<>>
    /\ \E k \in {1, Len(codec.pending)} :
         codec' = [codec EXCEPT !.buf = @ \o SubSeq(codec.pending, 1, k),
                                !.pending = SubSeq(@, k + 1, Len(@))]
    /\ UNCHANGED sessionVars

CodecFeedEof ==
    /\ codec.pc \in {"header", "body"}
    /\ codec.pending = <<>>
    /\ ~codec.eof
    /\ codec' = [codec EXCEPT !.eof = TRUE]
    /\ UNCHANGED sessionVars

\* one turn of read()'s header loop
CodecReadLine ==
    /\ codec.pc = "header"
    /\ FirstLF(codec.buf, 1) # 0 \/ codec.eof
    /\ LET l == readline(codec.buf)
           rest == SubSeq(codec.buf, Len(l) + 1, Len(codec.buf))
       IN IF l = <<>>
          THEN codec' = [codec EXCEPT !.pc = "ended", !.out = Append(@, ReturnedNone)]
          ELSE IF l = <<CR, LF>>
          THEN codec' = [codec EXCEPT !.pc = "body", !.buf = rest]
          ELSE IF l[1] = ContentLength
          THEN IF HeaderSize(l).ok
               THEN codec' = [codec EXCEPT !.size = HeaderSize(l).n, !.buf = rest]
               ELSE codec' = [codec EXCEPT !.pc = "ended", !.buf = rest,
                                           !.out = Append(@, Raised("ValueError", PyNone))]
          ELSE codec' = [codec EXCEPT !.buf = rest]
    /\ UNCHANGED sessionVars

\* read() from the body on; a returned message is followed by the next read()
CodecReadBody ==
    /\ codec.pc = "body"
    /\ stream_read(codec.buf, codec.size, codec.eof).ready
    /\ LET n == stream_read(codec.buf, codec.size, codec.eof).n
           body == SubSeq(codec.buf, 1, n)
           rest == SubSeq(codec.buf, n + 1, Len(codec.buf))
           obj == json_loads(body)
           res == IF obj.ok THEN construct(obj.v) ELSE Raised("JSONDecodeError", PyNone)
       IN codec' = [codec EXCEPT !.pc = IF res.kind = "msg" THEN "header" ELSE "ended",
                                 !.size = 0,
                                 !.buf = rest,
                                 !.bodies = Append(@, [size |-> codec.size, got |-> n]),
                                 !.out = Append(@, res)]
    /\ UNCHANGED sessionVars

CodecInit ==
    /\ InitCommon
    /\ inline = FALSE
    /\ pc = [c \in Callers |-> "none"]
    /\ script = [c \in Callers |-> <<>>]
    /\ \E n \in 1..MaxCodecFrames : \E ms \in [1..n -> CodecMessages] :
         codec = [pc |-> "header", sent |-> ms, pending |-> Stream(ms), buf |-> <<>>,
                  eof |-> FALSE, size |-> 0, out |-> <<>>, bodies |-> <<>>]

CodecNext ==
    \/ CodecFeed
    \/ CodecFeedEof
    \/ CodecReadLine
    \/ CodecReadBody

CodecSpec == CodecInit /\ [][CodecNext]_vars

\* ------------------------------------------------------- codec properties
IsRequest(d) == Lookup(d, "type") = PyStr("request")

\* the first i bodies were each read at their declared length
BodiesExactUpTo(i) ==
    /\ i <= Len(codec.bodies)
    /\ \A j \in 1..i : codec.bodies[j].got = codec.bodies[j].size

\* the header line, the blank line and the body of a frame, as read() splits it
SplitFrame(fr) ==
    LET l1 == readline(fr)
        r1 == SubSeq(fr, Len(l1) + 1, Len(fr))
        l2 == readline(r1)
    IN [header |-> l1, blank |-> l2, body |-> SubSeq(r1, Len(l2) + 1, Len(r1))]

\* C11 (as stated): for every valid message m, Decode(Encode(m)) is a message
\* with exactly m's fields -- here with every body read whole, so that nothing
\* but the codec's two functions decides the outcome.
C11_RoundTrip ==
    \A i \in 1..Len(codec.out) :
        BodiesExactUpTo(i) =>
            /\ codec.out[i].kind = "msg"
            /\ codec.out[i].obj = codec.sent[i]

\* C11 (amended): the frame to_bytes makes of a Request declares exactly its
\* body's length and its body parses back to exactly the Request's fields, but
\* read() never returns a Request: it returns only Responses and Events, and a
\* Request's frame read whole ends in RuntimeError 'unknown type'.
C11_RequestFrameIsLosslessButRejected ==
    /\ \A q \in CodecRequests :
         (\E i \in 1..Len(codec.sent) : codec.sent[i] = asdict(q)) =>
            LET f == SplitFrame(to_bytes(q)) IN
            /\ f.header[1] = ContentLength
            /\ HeaderSize(f.header) = [ok |-> TRUE, n |-> Len(f.body)]
            /\ f.blank = <<CR, LF>>
            /\ json_loads(f.body).ok
            /\ json_loads(f.body).v = asdict(q)
    /\ \A i \in 1..Len(codec.out) :
         codec.out[i].kind = "msg" =>
            Lookup(codec.out[i].obj, "type") \in {PyStr("response"), PyStr("event")}
    /\ \A i \in 1..Len(codec.out) :
         (BodiesExactUpTo(i) /\ IsRequest(codec.sent[i])) =>
            codec.out[i] = Raised("RuntimeError: unknown type", codec.sent[i])

\* a Response was returned, and the launch Request after it was read whole
\* and rejected
C11_Witness ==
    /\ Len(codec.out) = 2
    /\ BodiesExactUpTo(2)
    /\ codec.out[1].kind = "msg"
    /\ Len(codec.sent) = 2
    /\ codec.sent[2] = asdict(create_request(1, "launch").req)
    /\ codec.out[2] = Raised("RuntimeError: unknown type", codec.sent[2])

\* C16: read() takes exactly the declared Content-Length as the body, however
\* the stream delivers it, parses the whole body, and decodes the next frame
\* from the first byte after it: every body read has its declared length, and
\* every Response or Event on the stream is returned with its fields.
C16_BodyReadIsExact ==
    /\ \A i \in 1..Len(codec.bodies) : codec.bodies[i].got = codec.bodies[i].size
    /\ \A i \in 1..Len(codec.bodies) :
         (i <= Len(codec.sent) /\ ~IsRequest(codec.sent[i])) =>
            /\ codec.out[i].kind = "msg"
            /\ codec.out[i].obj = codec.sent[i]

====
